---- MODULE Spec2Model ----
(***************************************************************************)
(* A model of heapbench.py: the insertion functions, the removal runners   *)
(* (bench_remove_X), the table of tests and the module-level script that   *)
(* submits the cases to the pyperf runner.                                 *)
(*                                                                         *)
(* An item (n,) is the 1-tuple <<n>>; Python's item[0] is item[1] here.    *)
(* Two specifications are given:                                           *)
(*   Spec       one call bench_remove_<kind>(loops, items), step by step,  *)
(*              for any adapter kind and any short list of items;          *)
(*   SuiteSpec  the module-level script: imports, TESTS, the eight         *)
(*              registration loops.                                        *)
(***************************************************************************)
EXTENDS Integers, Sequences, FiniteSets, TLC

VARIABLES
    kind,         \* Spec: the adapter the runner under study belongs to
    items,        \* the list "items" (argument of the runner / module global)
    loops,        \* Spec: the argument "loops" of bench_remove_X
    pc,           \* position of the runner (Spec) or of the script (SuiteSpec)
    h,            \* Spec: the heap object of the current repetition
    i,            \* Spec: number of repetitions already completed
    now,          \* Spec: the value pyperf.perf_counter() would return
    t0,           \* Spec: local t0
    time_total,   \* Spec: local time_total
    out,          \* Spec: items returned by the drain loop, this repetition
    stats,        \* Spec: history counters (extract calls, drains, advances)
    cost,         \* Spec: the clock cost of a build, and of a slow extract
    failing,      \* SuiteSpec: the import that fails, and how
    have_bhpq,    \* SuiteSpec: module global have_bhpq
    TESTS,        \* SuiteSpec: module global TESTS
    phase,        \* SuiteSpec: which of the eight registration loops runs
    idx,          \* SuiteSpec: position of the running "for test in TESTS"
    cases,        \* SuiteSpec: what the pyperf runner has been handed
    shuffles      \* SuiteSpec: history, random.shuffle calls per size class

runnerVars == <<kind, loops, h, i, now, t0, time_total, out, stats, cost>>
suiteVars == <<failing, have_bhpq, TESTS, phase, idx, cases, shuffles>>
vars == <<kind, items, loops, pc, h, i, now, t0, time_total, out, stats, cost,
          failing, have_bhpq, TESTS, phase, idx, cases, shuffles>>

(***************************************************************************)
(* Bounds of the model.                                                    *)
(***************************************************************************)
MaxLen == 3
MaxLoops == 2
MaxDelay == 1
MaxCost == 1
SmallN == 2
BigN == 3

inner_loops == 10

Kinds == {"heapdict", "heapq", "pyheapq", "binaryheap", "libheap",
          "fibonacci_heap_mod", "fibheap", "heapy", "bhpq"}

(***************************************************************************)
(* Sequence helpers.                                                       *)
(***************************************************************************)
Range(s) == {s[k] : k \in DOMAIN s}

RemoveAt(s, k) == SubSeq(s, 1, k - 1) \o SubSeq(s, k + 1, Len(s))

SeqsUpTo(S, n) == UNION {[1..m -> S] : m \in 0..n}

Arrangements(s) ==
    {[k \in 1..Len(s) |-> s[p[k]]] :
        p \in {q \in [1..Len(s) -> 1..Len(s)] : \A a, b \in 1..Len(s) : q[a] = q[b] => a = b}}

\* Python's comparison of two 1-tuples.
ItemLess(a, b) == a[1] < b[1]

(***************************************************************************)
(* heapq (and pyheapq, the same algorithm in pure Python): a list kept in  *)
(* heap order. Python index p is p + 1 here.                               *)
(***************************************************************************)
RECURSIVE siftdown(_, _, _, _)
siftdown(heap, startpos, pos, newitem) ==
    IF pos > startpos
    THEN LET parentpos == (pos - 1) \div 2
             parent == heap[parentpos + 1]
         IN IF ItemLess(newitem, parent)
            THEN siftdown([heap EXCEPT ![pos + 1] = parent], startpos, parentpos, newitem)
            ELSE [heap EXCEPT ![pos + 1] = newitem]
    ELSE [heap EXCEPT ![pos + 1] = newitem]

RECURSIVE siftup_bubble(_, _, _)
siftup_bubble(heap, pos, endpos) ==
    LET childpos == 2 * pos + 1
        rightpos == childpos + 1
        c == IF rightpos < endpos /\ ~ItemLess(heap[childpos + 1], heap[rightpos + 1])
             THEN rightpos ELSE childpos
    IN IF childpos < endpos
       THEN siftup_bubble([heap EXCEPT ![pos + 1] = heap[c + 1]], c, endpos)
       ELSE <<heap, pos>>

siftup(heap, pos) ==
    LET newitem == heap[pos + 1]
        r == siftup_bubble(heap, pos, Len(heap))
    IN siftdown(r[1], pos, r[2], newitem)

heappush(heap, item) == siftdown(Append(heap, item), 0, Len(heap), item)

\* <<the heap after the call, the item returned>>
heappop(heap) ==
    LET lastelt == heap[Len(heap)]
        rest == SubSeq(heap, 1, Len(heap) - 1)
    IN IF rest # <<>>
       THEN <<siftup([rest EXCEPT ![1] = lastelt], 0), rest[1]>>
       ELSE <<rest, lastelt>>

(***************************************************************************)
(* The third-party heaps behind the other adapters, through the calls      *)
(* heapbench.py makes on them. A heap is the sequence of the entries it    *)
(* holds, oldest first; an extract call removes the first entry whose key  *)
(* is extremal. Every pop returns <<the heap after the call, the entry     *)
(* returned>>.                                                             *)
(***************************************************************************)
\* heapdict: a dict of key -> priority, as the list of its <<key, priority>> pairs.
heapdict_setitem(hh, key, priority) ==
    IF \E k \in 1..Len(hh) : hh[k][1] = key
    THEN [k \in 1..Len(hh) |-> IF hh[k][1] = key THEN <<key, priority>> ELSE hh[k]]
    ELSE Append(hh, <<key, priority>>)

PriorityBefore(a, b) == a[2] < b[2]

\* Python's comparison of the pairs (item[0], item) pushed on a heapy queue.
PairLess(a, b) == a[1] < b[1] \/ (a[1] = b[1] /\ ItemLess(a[2], b[2]))

\* Faulty variant: the queue built with prefer=min.
bhpq_prefer_min(a, b) == ItemLess(a, b)

\* bhpq.BinaryHeapPriorityQueue(prefer=max): of two entries the queue prefers
\* the one Python's max returns, the greater.
bhpq_prefer(a, b) == ItemLess(b, a)

\* Whether entry a leaves a heap before entry b, by the order the heap uses.
Before(order, a, b) ==
    CASE order = "item" -> ItemLess(a, b)
      [] order = "priority" -> PriorityBefore(a, b)
      [] order = "pair" -> PairLess(a, b)
      [] order = "prefer" -> bhpq_prefer(a, b)

\* The position of the first entry of hh that no other entry is before.
FirstBest(hh, order) ==
    CHOOSE k \in 1..Len(hh) :
        /\ \A j \in 1..Len(hh) : ~Before(order, hh[j], hh[k])
        /\ \A j \in 1..(k - 1) : Before(order, hh[k], hh[j])

PopBest(hh, order) ==
    LET k == FirstBest(hh, order) IN <<RemoveAt(hh, k), hh[k]>>

heapdict_popitem(hh) == PopBest(hh, "priority")

\* binaryheap.new_min_heap(): add, extract_one.
binaryheap_add(hh, item) == Append(hh, item)

binaryheap_extract_one(hh) == PopBest(hh, "item")

\* fibonacci_heap_mod.Fibonacci_heap(): enqueue(value, priority), dequeue_min.
fibonacci_heap_mod_enqueue(hh, value, priority) == Append(hh, <<value, priority>>)

fibonacci_heap_mod_dequeue_min(hh) == PopBest(hh, "priority")

\* libheap.Heap(): insert, pop, empty.
libheap_insert(hh, item) == Append(hh, item)

libheap_pop(hh) == PopBest(hh, "item")

\* fibheap.makefheap(): fheappush, fheappop, num_nodes.
fheappush(hh, item) == Append(hh, item)

fheappop(hh) == PopBest(hh, "item")

\* bhpq.BinaryHeapPriorityQueue(prefer=max): add, pop, size.
bhpq_add(hh, item) == Append(hh, item)

bhpq_pop(hh) == PopBest(hh, "prefer")

\* heapy.pqueue(): push, pop on the pairs (item[0], item).
heapy_push(hh, pair) == Append(hh, pair)

heapy_pop(hh) == PopBest(hh, "pair")

(***************************************************************************)
(* The insertion functions: a fresh heap, then one insert call per item,   *)
(* in the order of the list.                                               *)
(***************************************************************************)
RECURSIVE insert_into(_, _, _)
insert_into(k, hh, its) ==
    IF its = <<>> THEN hh
    ELSE LET item == Head(its)
             next == CASE k = "heapdict" -> heapdict_setitem(hh, item, item[1])
                       [] k = "heapq" -> heappush(hh, item)
                       [] k = "pyheapq" -> heappush(hh, item)
                       [] k = "binaryheap" -> binaryheap_add(hh, item)
                       [] k = "fibonacci_heap_mod" -> fibonacci_heap_mod_enqueue(hh, item, item[1])
                       [] k = "libheap" -> libheap_insert(hh, item)
                       [] k = "fibheap" -> fheappush(hh, item)
                       [] k = "bhpq" -> bhpq_add(hh, item)
                       [] k = "heapy" -> heapy_push(hh, <<item[1], item>>)
         IN insert_into(k, next, Tail(its))

insert_heapdict(its) == insert_into("heapdict", <<>>, its)
insert_heapq(its) == insert_into("heapq", <<>>, its)
insert_pyheapq(its) == insert_into("pyheapq", <<>>, its)
insert_binaryheap(its) == insert_into("binaryheap", <<>>, its)
insert_fibonacci_heap_mod(its) == insert_into("fibonacci_heap_mod", <<>>, its)
insert_libheap(its) == insert_into("libheap", <<>>, its)
insert_fibheap(its) == insert_into("fibheap", <<>>, its)
insert_bhpq(its) == insert_into("bhpq", <<>>, its)
insert_heapy(its) == insert_into("heapy", <<>>, its)

\* test["insert"] of the adapter's row of TESTS.
insert(k, its) ==
    CASE k = "heapdict" -> insert_heapdict(its)
      [] k = "heapq" -> insert_heapq(its)
      [] k = "pyheapq" -> insert_pyheapq(its)
      [] k = "binaryheap" -> insert_binaryheap(its)
      [] k = "fibonacci_heap_mod" -> insert_fibonacci_heap_mod(its)
      [] k = "libheap" -> insert_libheap(its)
      [] k = "fibheap" -> insert_fibheap(its)
      [] k = "bhpq" -> insert_bhpq(its)
      [] k = "heapy" -> insert_heapy(its)

\* Faulty variant: an insertion function that sorts the list it was given in place.
items_sorted_in_place(k, its) == CHOOSE s \in Arrangements(its) : \A a, b \in 1..Len(s) : a < b => s[a][1] <= s[b][1]

\* What an insertion function leaves in the list it was given: it only
\* iterates over it.
items_after_insert(k, its) == its

(***************************************************************************)
(* The pieces of the removal runners that differ per adapter: the test of  *)
(* the drain loop, the extract call, and the item an extract hands back.   *)
(***************************************************************************)
\* len(h), h.size(), h.num_nodes, or the length truthiness of "while h" stands for.
heap_size(k, hh) == Len(hh)

\* Faulty variant: a drain loop that stops one entry early.
drain_test_stops_early(k, hh) == Len(hh) > 1

drain_test(k, hh) ==
    CASE k \in {"heapdict", "heapy"} -> heap_size(k, hh) > 0
      [] k \in {"heapq", "pyheapq"} -> hh # <<>>
      [] k \in {"binaryheap", "fibonacci_heap_mod"} -> heap_size(k, hh) # 0
      [] k = "libheap" -> ~(heap_size(k, hh) = 0)
      [] k = "fibheap" -> heap_size(k, hh) > 0
      [] k = "bhpq" -> heap_size(k, hh) > 0

extract(k, hh) ==
    CASE k = "heapdict" -> heapdict_popitem(hh)
      [] k = "heapq" -> heappop(hh)
      [] k = "pyheapq" -> heappop(hh)
      [] k = "binaryheap" -> binaryheap_extract_one(hh)
      [] k = "fibonacci_heap_mod" -> fibonacci_heap_mod_dequeue_min(hh)
      [] k = "libheap" -> libheap_pop(hh)
      [] k = "fibheap" -> fheappop(hh)
      [] k = "bhpq" -> bhpq_pop(hh)
      [] k = "heapy" -> heapy_pop(hh)

\* The item inside what the extract call returned.
item_of(k, entry) ==
    CASE k \in {"heapdict", "fibonacci_heap_mod"} -> entry[1]
      [] k = "heapy" -> entry[2]
      [] OTHER -> entry

\* Faulty variant: t0 read before the heap is built.
timer_start_before_build(beforeBuild, afterBuild) == beforeBuild

\* The clock value the runner takes as t0: the one read after the heap was
\* built (beforeBuild is the clock when the repetition began).
timer_start(beforeBuild, afterBuild) == afterBuild

(***************************************************************************)
(* Spec: one call of bench_remove_<kind>(loops, items). The clock advances *)
(* by cost.build while the heap is built and by 0 or cost.extract during   *)
(* each extract call.                                                      *)
(***************************************************************************)
Items == {<<n>> : n \in 0..(MaxLen - 1)}

\* The lists the runner is tried on: any arrangement of at most MaxLen items,
\* repeated values included. A heap only compares values, so of the lists
\* with the same relative order one is kept: that of values 0..m-1.
Workloads ==
    {s \in SeqsUpTo(Items, MaxLen) :
        LET vals == {s[k][1] : k \in DOMAIN s}
        IN vals = 0..(Cardinality(vals) - 1)}

NoStats == [extracts |-> 0, drains |-> 0, total_extracts |-> 0,
            drain_advance |-> 0, size_at_start |-> 0]

SuiteIdle ==
    /\ failing = <<"none", "none">>
    /\ have_bhpq = FALSE
    /\ TESTS = <<>>
    /\ phase = 0
    /\ idx = 0
    /\ cases = <<>>
    /\ shuffles = <<0, 0>>

Init ==
    /\ kind \in Kinds
    /\ items \in Workloads
    /\ loops \in 0..MaxLoops
    /\ cost \in [build : {0, MaxDelay}, extract : {0, MaxCost}]
    /\ pc = "start"
    /\ h = <<>>
    /\ i = 0
    /\ now = 0
    /\ t0 = 0
    /\ time_total = 0
    /\ out = <<>>
    /\ stats = NoStats
    /\ SuiteIdle

\* range_it = range(loops); time_total = 0
Enter ==
    /\ pc = "start"
    /\ time_total' = 0
    /\ i' = 0
    /\ pc' = "loop"
    /\ UNCHANGED <<kind, items, loops, h, now, t0, out, stats, cost>>
    /\ UNCHANGED suiteVars

\* The next repetition: h = insert_<kind>(items); t0 = pyperf.perf_counter()
Build ==
    /\ pc = "loop"
    /\ i < loops
    /\ h' = insert(kind, items)
    /\ items' = items_after_insert(kind, items)
    /\ now' = now + cost.build
    /\ t0' = timer_start(now, now + cost.build)
    /\ out' = <<>>
    /\ stats' = [stats EXCEPT !.extracts = 0, !.size_at_start = heap_size(kind, h')]
    /\ pc' = "drain"
    /\ UNCHANGED <<kind, loops, i, time_total, cost>>
    /\ UNCHANGED suiteVars

\* One turn of the drain loop: the test holds, one extract call.
Extract ==
    /\ pc = "drain"
    /\ drain_test(kind, h)
    /\ LET r == extract(kind, h)
       IN /\ h' = r[1]
          /\ out' = Append(out, item_of(kind, r[2]))
    /\ \E d \in {0, cost.extract} :
          /\ now' = now + d
          /\ stats' = [stats EXCEPT !.extracts = @ + 1, !.total_extracts = @ + 1,
                                    !.drain_advance = @ + d]
    /\ UNCHANGED <<kind, items, loops, pc, i, t0, time_total, cost>>
    /\ UNCHANGED suiteVars

\* The drain loop ends: t1 = pyperf.perf_counter(); time_total += t1 - t0
EndDrain ==
    /\ pc = "drain"
    /\ ~drain_test(kind, h)
    /\ LET t1 == now IN time_total' = time_total + (t1 - t0)
    /\ i' = i + 1
    /\ stats' = [stats EXCEPT !.drains = @ + 1]
    /\ pc' = "loop"
    /\ UNCHANGED <<kind, items, loops, h, now, t0, out, cost>>
    /\ UNCHANGED suiteVars

\* return time_total
Return ==
    /\ pc = "loop"
    /\ i >= loops
    /\ pc' = "done"
    /\ UNCHANGED <<kind, items, loops, h, i, now, t0, time_total, out, stats, cost>>
    /\ UNCHANGED suiteVars

Next == Enter \/ Build \/ Extract \/ EndDrain \/ Return

Spec == Init /\ [][Next]_vars

(***************************************************************************)
(* SuiteSpec: the module-level script. At most one of the adapter imports  *)
(* fails, with a SyntaxError or a ModuleNotFoundError. The two size        *)
(* classes, N=1K and N=1M in the script, are scaled to SmallN and BigN.    *)
(***************************************************************************)
ImportErrors == {"SyntaxError", "ModuleNotFoundError"}

\* An unguarded "import m": the name is bound, or the exception propagates.
import_required(err) == IF err = "none" THEN "ok" ELSE "raise"

\* Faulty variant: the except clause leaves have_bhpq True.
import_bhpq_flag_stays_true(err) == IF err \in {"none", "SyntaxError"} THEN "True" ELSE "raise"

\* try: import bhpq ... except SyntaxError: the value have_bhpq gets, or the
\* exception propagates.
import_bhpq(err) ==
    CASE err = "none" -> "True"
      [] err = "SyntaxError" -> "False"
      [] OTHER -> "raise"

Row(k, name_insert, name_remove) ==
    [kind |-> k, name_insert |-> name_insert, name_remove |-> name_remove]

TESTS_literal ==
    << Row("heapdict", "heapdict[]", "heapdict.popitem()"),
       Row("heapq", "heapq.heappush()", "heapq.heappop()"),
       Row("pyheapq", "pyheapq.heappush()", "pyheapq.heappop()"),
       Row("binaryheap", "binaryheap.add()", "binaryheap.extract_one()"),
       Row("libheap", "libheap.insert()", "libheap.pop()"),
       Row("fibonacci_heap_mod", "fibonacci_heap_mod.enqueue()",
           "fibonacci_heap_mod.dequeue_min()"),
       Row("fibheap", "fibheap.fheappush()", "fibheap.fheappop()"),
       Row("heapy", "heapy.push()", "heapy.pop()") >>

bhpq_row == Row("bhpq", "bhpq.add()", "bhpq.pop()")

\* Faulty variant: the bhpq row appended whatever have_bhpq is.
tests_table_always_bhpq(have) == Append(TESTS_literal, bhpq_row)

\* TESTS = [...]; if have_bhpq: TESTS.append(...)
tests_table(have) == IF have THEN Append(TESTS_literal, bhpq_row) ELSE TESTS_literal

\* [(n,) for n in range(start, stop, step)], for a step of 1 or -1
range_items(start, stop, step) ==
    LET n == IF step > 0 THEN stop - start ELSE start - stop
    IN [k \in 1..(IF n > 0 THEN n ELSE 0) |-> <<start + (k - 1) * step>>]

SizeN(size) == IF size = "1K" THEN SmallN ELSE BigN

phase_op(p) == IF p <= 6 THEN "insert" ELSE "remove"

phase_size(p) == IF p \in {1, 2, 3, 7} THEN "1K" ELSE "1M"

\* The arrangement of the list the loop hands over.
phase_order(p) ==
    CASE p \in {1, 4, 7, 8} -> "ascending"
      [] p \in {2, 5} -> "descending"
      [] p \in {3, 6} -> "random"

\* The lists the statement before loop p can leave in "items".
phase_items(p, cur) ==
    CASE p \in {1, 4, 7, 8} -> {range_items(0, SizeN(phase_size(p)), 1)}
      [] p \in {2, 5} -> {range_items(SizeN(phase_size(p)), 0, -1)}
      [] p \in {3, 6} -> Arrangements(cur)

\* Faulty variant: the N=1K loops written with the order tokens of the N=1M loops.
phase_suffix_same_tokens(p) ==
    CASE p = 1 -> <<" ", "ascending order", ", ", "N=", "1K">>
      [] p = 2 -> <<" ", "descending order", ", ", "N=", "1K">>
      [] p = 3 -> <<" ", "random order", ", ", "N=", "1K">>
      [] p = 4 -> <<" ", "ascending order", ", ", "N=", "1M">>
      [] p = 5 -> <<" ", "descending order", ", ", "N=", "1M">>
      [] p = 6 -> <<" ", "random order", ", ", "N=", "1M">>
      [] p = 7 -> <<", ", "N=", "1K">>
      [] p = 8 -> <<", ", "N=", "1M">>

\* The literal part of the f-string of loop p, cut into tokens.
phase_suffix(p) ==
    CASE p = 1 -> <<" ", "ascending", ", ", "N=", "1K">>
      [] p = 2 -> <<" ", "descending", ", ", "N=", "1K">>
      [] p = 3 -> <<" ", "random order", ", ", "N=", "1K">>
      [] p = 4 -> <<" ", "ascending order", ", ", "N=", "1M">>
      [] p = 5 -> <<" ", "descending order", ", ", "N=", "1M">>
      [] p = 6 -> <<" ", "random order", ", ", "N=", "1M">>
      [] p = 7 -> <<", ", "N=", "1K">>
      [] p = 8 -> <<", ", "N=", "1M">>

\* inner_loops of the call: bench_func is given none.
phase_inner_loops(p) == IF phase_op(p) = "remove" THEN inner_loops ELSE 1

LastPhase == 8

RunnerIdle ==
    /\ kind = "none"
    /\ loops = 0
    /\ h = <<>>
    /\ i = 0
    /\ now = 0
    /\ t0 = 0
    /\ time_total = 0
    /\ out = <<>>
    /\ stats = NoStats
    /\ cost = [build |-> 0, extract |-> 0]

SuiteInit ==
    /\ failing \in {<<"none", "none">>} \cup (Kinds \X ImportErrors)
    /\ have_bhpq = FALSE
    /\ TESTS = <<>>
    /\ phase = 0
    /\ idx = 0
    /\ cases = <<>>
    /\ shuffles = <<0, 0>>
    /\ items = <<>>
    /\ pc = "import"
    /\ RunnerIdle

ImportOutcome(m) == IF failing[1] = m THEN failing[2] ELSE "none"

\* import binaryheap ... import heapy; try: import bhpq
Import ==
    /\ pc = "import"
    /\ IF \E m \in Kinds \ {"bhpq"} : import_required(ImportOutcome(m)) = "raise"
       THEN pc' = "crashed" /\ UNCHANGED have_bhpq
       ELSE LET r == import_bhpq(ImportOutcome("bhpq"))
            IN IF r = "raise"
               THEN pc' = "crashed" /\ UNCHANGED have_bhpq
               ELSE pc' = "table" /\ have_bhpq' = (r = "True")
    /\ UNCHANGED <<failing, TESTS, phase, idx, cases, shuffles, items>>
    /\ UNCHANGED runnerVars

\* TESTS = [...]; the optional append; runner = pyperf.Runner()
Table ==
    /\ pc = "table"
    /\ TESTS' = tests_table(have_bhpq)
    /\ phase' = 1
    /\ pc' = "phase"
    /\ UNCHANGED <<failing, have_bhpq, idx, cases, shuffles, items>>
    /\ UNCHANGED runnerVars

\* The statement before a loop: items = [...] or random.shuffle(items)
BeginPhase ==
    /\ pc = "phase"
    /\ items' \in phase_items(phase, items)
    /\ shuffles' = IF phase_order(phase) = "random"
                   THEN [shuffles EXCEPT ![IF phase_size(phase) = "1K" THEN 1 ELSE 2] = @ + 1]
                   ELSE shuffles
    /\ idx' = 1
    /\ pc' = "register"
    /\ UNCHANGED <<failing, have_bhpq, TESTS, phase, cases>>
    /\ UNCHANGED runnerVars

\* One turn of "for test in TESTS": runner.bench_func(name, test["insert"], items)
\* or runner.bench_time_func(name, test["remove"], items, inner_loops=10)
Register ==
    /\ pc = "register"
    /\ idx <= Len(TESTS)
    /\ LET test == TESTS[idx]
           name == <<IF phase_op(phase) = "insert" THEN test.name_insert
                     ELSE test.name_remove>> \o phase_suffix(phase)
       IN /\ cases' = Append(cases, [name |-> name, kind |-> test.kind,
                                     op |-> phase_op(phase), order |-> phase_order(phase),
                                     size |-> phase_size(phase), items |-> items,
                                     inner_loops |-> phase_inner_loops(phase)])
          /\ items' = items_after_insert(test.kind, items)
    /\ idx' = idx + 1
    /\ UNCHANGED <<failing, have_bhpq, TESTS, phase, pc, shuffles>>
    /\ UNCHANGED runnerVars

\* The loop is over: on to the next statement, or the script ends.
EndPhase ==
    /\ pc = "register"
    /\ idx > Len(TESTS)
    /\ IF phase = LastPhase
       THEN pc' = "done" /\ UNCHANGED phase
       ELSE pc' = "phase" /\ phase' = phase + 1
    /\ UNCHANGED <<failing, have_bhpq, TESTS, idx, cases, shuffles, items>>
    /\ UNCHANGED runnerVars

SuiteNext == Import \/ Table \/ BeginPhase \/ Register \/ EndPhase

SuiteSpec == SuiteInit /\ [][SuiteNext]_vars

(***************************************************************************)
(* Claims about the removal runners, checked under Spec.                   *)
(***************************************************************************)
NonDecreasing(s) == \A a, b \in 1..Len(s) : a < b => s[a][1] <= s[b][1]

NonIncreasing(s) == \A a, b \in 1..Len(s) : a < b => s[a][1] >= s[b][1]

Distinct(s) == \A a, b \in 1..Len(s) : s[a] = s[b] => a = b

C2_TotalIsDrainTimeOnly ==
    /\ pc = "loop" => time_total = stats.drain_advance
    /\ pc = "done" => /\ time_total = stats.drain_advance
                      /\ cost.extract = 0 => time_total = 0

\* A call that returned 0 although every build advanced the clock.
C2_Witness ==
    /\ pc = "done"
    /\ loops > 1
    /\ Len(items) > 1
    /\ cost.build > 0
    /\ cost.extract = 0
    /\ now = loops * cost.build
    /\ time_total = 0

\* C4: for a list of N pairwise distinct items, every repetition starts its
\* drain on a heap just built that holds N items, makes N extract calls and
\* leaves the heap empty.
C4_FreshFullDrain ==
    Distinct(items) =>
        /\ pc = "drain" => stats.size_at_start = Len(items)
        /\ (pc = "drain" /\ stats.extracts = 0) =>
               heap_size(kind, h) = Len(items) /\ out = <<>>
        /\ (pc = "loop" /\ i > 0) =>
               /\ stats.extracts = Len(items)
               /\ Len(out) = Len(items)
               /\ heap_size(kind, h) = 0
        /\ pc \in {"loop", "done"} => stats.total_extracts = i * Len(items)
        /\ pc = "done" => stats.drains = loops

\* The second repetition over three distinct items has ended.
C4_Witness ==
    /\ pc = "loop"
    /\ i = 2
    /\ Len(items) = 3
    /\ Distinct(items)
    /\ stats.extracts = 3
    /\ stats.total_extracts = 6
    /\ h = <<>>

\* C8, as stated: after the n inserts of the build and k extracts the heap
\* holds n - k entries, for every adapter and any items, repeated values too.
C8_SizeIsInsertsMinusExtracts ==
    pc = "drain" => heap_size(kind, h) = Len(items) - stats.extracts

\* C10, as stated: on the ascending list of a size class, a call with
\* loops = L times L * inner_loops units of work, a unit being one drain or
\* one extract call.
C10_TimedUnitsAreLoopsTimesInner ==
    (pc = "done" /\ items \in {range_items(0, SmallN, 1), range_items(0, BigN, 1)}) =>
        \/ stats.drains = loops * inner_loops
        \/ stats.total_extracts = loops * inner_loops

(***************************************************************************)
(* Claims about the module-level script, checked under SuiteSpec.          *)
(***************************************************************************)
Orders == {"ascending", "descending", "random"}

Sizes == {"1K", "1M"}

Submitted == {cases[k] : k \in 1..Len(cases)}

Inserts == {c \in Submitted : c.op = "insert"}

Removes == {c \in Submitted : c.op = "remove"}

Values(its) == {its[k][1] : k \in 1..Len(its)}

\* The adapters whose import did not fail.
Available == {k \in Kinds : failing[1] # k}

RowOf(k) == CHOOSE r \in Range(tests_table(TRUE)) : r.kind = k

OrderToken(order, sz) ==
    CASE order = "ascending" -> IF sz = "1K" THEN "ascending" ELSE "ascending order"
      [] order = "descending" -> IF sz = "1K" THEN "descending" ELSE "descending order"
      [] order = "random" -> "random order"

NameOf(k, op, order, sz) ==
    IF op = "insert"
    THEN <<RowOf(k).name_insert, " ", OrderToken(order, sz), ", ", "N=", sz>>
    ELSE <<RowOf(k).name_remove, ", ", "N=", sz>>

\* C3, as stated: the list handed to an insertion case of size class N has N
\* items and its values are 0..N-1, each once, for each of the three orders.
C3_WorkloadIsZeroToNMinusOne ==
    \A c \in Inserts :
        /\ Len(c.items) = SizeN(c.size)
        /\ Distinct(c.items)
        /\ Values(c.items) = 0..(SizeN(c.size) - 1)

C6_OneShuffleSharedByAll ==
    /\ \A s \in 1..2 : shuffles[s] <= 1
    /\ \A a, b \in Inserts :
           (a.order = "random" /\ b.order = "random" /\ a.size = b.size) =>
               a.items = b.items
    /\ \A c \in Inserts :
           c.order = "random" => shuffles[IF c.size = "1K" THEN 1 ELSE 2] = 1
    /\ pc = "done" => shuffles = <<1, 1>>

\* All nine adapters were handed one and the same shuffled list, which is
\* neither the ascending nor the descending one.
C6_Witness ==
    /\ pc = "done"
    /\ Cardinality({c.kind : c \in {d \in Inserts : d.order = "random" /\ d.size = "1M"}}) = 9
    /\ \A c \in Inserts :
           (c.order = "random" /\ c.size = "1M") => c.items = <<<<2>>, <<3>>, <<1>>>>

OrderTokens == {"ascending", "ascending order", "descending", "descending order",
                "random", "random order"}

\* C9, as stated: every name is "<adapter and operation>, <order>, N=<size>",
\* with one order token per order pattern, the same at both size classes.
C9_NameHasCommaOrderAndSize ==
    \E tok \in [Orders -> OrderTokens] :
        \A c \in Submitted :
            c.name = << (IF c.op = "insert" THEN RowOf(c.kind).name_insert
                         ELSE RowOf(c.kind).name_remove),
                        ", ", tok[c.order], ", ", "N=", c.size >>

\* C9, amended: every name is a function of (adapter, operation, order,
\* size) only, different for different cases, and ends with ", N=<size>".
\* An insertion name is "<name_insert> <order token>, N=<size>", a space and
\* no comma before the order token, which is "ascending", "descending" or
\* "random order" at N=1K and "ascending order", "descending order" or
\* "random order" at N=1M. A removal name is "<name_remove>, N=<size>" and
\* has no order field.
C9_NameFormat ==
    /\ \A c \in Submitted : c.name = NameOf(c.kind, c.op, c.order, c.size)
    /\ \A c \in Submitted : SubSeq(c.name, Len(c.name) - 2, Len(c.name)) = <<", ", "N=", c.size>>
    /\ \A a, b \in Submitted :
           a.name = b.name => <<a.kind, a.op, a.order, a.size>> = <<b.kind, b.op, b.order, b.size>>

\* Names of an insertion case of either size class and of a removal case.
C9_Witness ==
    /\ pc = "done"
    /\ \E c \in Submitted : c.name = <<"heapq.heappush()", " ", "ascending", ", ", "N=", "1K">>
    /\ \E c \in Submitted : c.name = <<"heapq.heappush()", " ", "ascending order", ", ", "N=", "1M">>
    /\ \E c \in Submitted : c.name = <<"bhpq.pop()", ", ", "N=", "1M">>

====
